---- MODULE Spec2Model ----
\* TPM service provider interface (src/security/tpm/tspi/tspi.c).
\*
\* tpm_setup is modelled statement by statement: every call into the TSS
\* (the tlcl_ functions) is one step, its status is chosen by the device,
\* and the call is appended to `calls`, the log of the device calls of the
\* invocation.
EXTENDS Integers, Sequences, FiniteSets

\* ------------------------------------------------------------------------
\* Status codes (uint32_t results of the tlcl_* calls and of this file).
TPM_SUCCESS == "TPM_SUCCESS"
TPM_E_INVALID_POSTINIT == "TPM_E_INVALID_POSTINIT"
TPM_E_MUST_REBOOT == "TPM_E_MUST_REBOOT"
TPM_E_IOERROR == "TPM_E_IOERROR"
TPM_E_COMMUNICATION_ERROR == "TPM_E_COMMUNICATION_ERROR"
TPM_E_HASH_ERROR == "TPM_E_HASH_ERROR"
TPM_E_READ_FAILURE == "TPM_E_READ_FAILURE"
TPM_E_INVALID_ARG == "TPM_E_INVALID_ARG"

\* Every status a device call may hand back.
Status ==
  {TPM_SUCCESS, TPM_E_INVALID_POSTINIT, TPM_E_MUST_REBOOT, TPM_E_IOERROR,
   TPM_E_COMMUNICATION_ERROR}

\* enum vb2_hash_algorithm: the three values tpm_extend_pcr names and one
\* that it does not.
VB2_HASH_INVALID == "VB2_HASH_INVALID"
VB2_HASH_SHA1 == "VB2_HASH_SHA1"
VB2_HASH_SHA256 == "VB2_HASH_SHA256"
VB2_HASH_SHA512 == "VB2_HASH_SHA512"

HashAlgorithms ==
  {VB2_HASH_INVALID, VB2_HASH_SHA1, VB2_HASH_SHA256, VB2_HASH_SHA512}

\* The device's algorithm identifiers; TPM_ALG_ZERO is uint16_t algorithm = 0.
TPM_ALG_ZERO == "0"
TPM_ALG_SHA1 == "TPM_ALG_SHA1"
TPM_ALG_SHA256 == "TPM_ALG_SHA256"
TPM_ALG_SHA512 == "TPM_ALG_SHA512"

\* Largest PCR index a caller passes.
MaxPcr == 1

Pcrs == 0..MaxPcr

\* Width in bits of the model's uint32_t offset counter, scaled down; sizes
\* (size_t) are not reduced, as where size_t is wider than uint32_t.
OffsetBits == 4

OffsetMod == 2 ^ OffsetBits

\* Region sizes: empty, small, the largest the counter holds, and larger.
RegionSizes == {0, 1, 4, 10, OffsetMod - 1, OffsetMod, OffsetMod + 2}

\* sizeof(buf), HASH_DATA_CHUNK_SIZE.
ChunkSizes == {3, 4}

\* Chunks after which the model stops following a loop that does not end.
MaxChunks == OffsetMod

Min(a, b) == IF a < b THEN a ELSE b

\* Largest byte value the device reports for a capability flag (uint8_t).
MaxFlag == 2

FlagValues == 0..MaxFlag

\* C truth value of an integer expression: !!x
Truth(x) == IF x # 0 THEN 1 ELSE 0

\* C logical negation: !x
Not(x) == IF x # 0 THEN 0 ELSE 1

\* Build configurations: CONFIG(TPM1) / CONFIG(TPM2), CONFIG(TPM_DEACTIVATE),
\* CONFIG(TPM_STARTUP_IGNORE_POSTINIT), CONFIG(VBOOT_MEASURED_BOOT).
\* CONFIG(x) evaluates to 0 or 1.
Configs ==
  [TPM1 : {0, 1}, TPM_DEACTIVATE : {0, 1}, TPM_STARTUP_IGNORE_POSTINIT : {0, 1},
   VBOOT_MEASURED_BOOT : {0, 1}]

\* CONFIG(TPM2): the generation that is not TPM1
\* (if (CONFIG(TPM1)) ... else /* CONFIG_TPM2 */).
CONFIG_TPM2(c) == IF c.TPM1 # 0 THEN 0 ELSE 1

VARIABLES
  cfg,          \* the build configuration, fixed for a run
  dev,          \* the device's capability flags [disabled, deactivated]
  pc,           \* position in tpm_setup; "idle" between invocations
  s3flag,       \* argument of the running tpm_setup invocation
  result,       \* local `result` of tpm_setup / tpm1_invoke_state_machine
  disabled,     \* local `disabled` of tpm1_invoke_state_machine
  deactivated,  \* local `deactivated` of tpm1_invoke_state_machine
  calls,        \* device calls of this invocation, in order
  epilogueArg,  \* argument tpm_setup_epilogue was called with
  postCodes,    \* number of post_code(POST_TPM_FAILURE) of this invocation
  ret,          \* value returned by tpm_setup, "none" while running
  setupCompleted, \* a tpm_setup invocation has returned since the boot
  fn,           \* the function running besides tpm_setup, "none" if none
  trace,        \* collaborator calls of the invocation of fn, in order
  xret,         \* value returned by fn, "none" while running
  ext,          \* parameters of the running tpm_extend_pcr
  mr,           \* parameters of the running tpm_measure_region
  offset,       \* local `offset` of tpm_measure_region (uint32_t)
  len,          \* local `len` of tpm_measure_region
  ctx           \* the hash context: the chunks fed to it, in order

\* The observations of one tpm_setup invocation.
svars ==
  <<s3flag, result, disabled, deactivated, calls, epilogueArg, postCodes, ret>>

\* The state of the functions other than tpm_setup.
xvars == <<fn, trace, xret, ext, mr, offset, len, ctx>>

vars ==
  <<cfg, dev, pc, s3flag, result, disabled, deactivated, calls, epilogueArg,
    postCodes, ret, setupCompleted, fn, trace, xret, ext, mr, offset, len,
    ctx>>

\* A logged device call: name, argument (0 when it has none), status, and
\* the values it stored through its out-parameters (<<>> when none).
Call(op, arg, st, out) == [op |-> op, arg |-> arg, st |-> st, out |-> out]

\* A digest argument: a null pointer, a digest of the caller (no chunks), or
\* the digest finalized over the chunks of a hash context.
Digest(null, chunks) == [null |-> null, chunks |-> chunks]

\* Parameters of tpm_extend_pcr and tpm_measure_region while they do not run.
NoExtend == [pcr |-> 0, digest_algo |-> "none", digest |-> Digest(TRUE, <<>>),
             name |-> "none"]

NoMeasure == [rdev |-> "none", size |-> 0, chunk |-> 0, pcr |-> 0,
              rname |-> "none"]

Init ==
  /\ setupCompleted = FALSE
  /\ fn = "none"
  /\ trace = <<>>
  /\ xret = "none"
  /\ ext = NoExtend
  /\ mr = NoMeasure
  /\ offset = 0
  /\ len = 0
  /\ ctx = <<>>
  /\ cfg \in Configs
  /\ dev \in [disabled : FlagValues, deactivated : FlagValues]
  /\ pc = "idle"
  /\ s3flag = 0
  /\ result = TPM_SUCCESS
  /\ disabled = 0
  /\ deactivated = 0
  /\ calls = <<>>
  /\ epilogueArg = "none"
  /\ postCodes = 0
  /\ ret = "none"

\* ------------------------------------------------------------------------
\* uint32_t tpm_setup(int s3flag): entry.
tpm_setup ==
  /\ pc = "idle"
  /\ \E f \in {0, 1} : s3flag' = f
  /\ pc' = "lib_init"
  /\ result' = TPM_SUCCESS
  /\ disabled' = 0
  /\ deactivated' = 0
  /\ calls' = <<>>
  /\ epilogueArg' = "none"
  /\ postCodes' = 0
  /\ ret' = "none"
  /\ UNCHANGED <<cfg, dev>>
  /\ UNCHANGED <<setupCompleted, xvars>>

\* Variant: the s3flag test is missing, a resume runs the full startup.
AfterLibInit_IgnoresS3(st, flag) ==
  IF st # TPM_SUCCESS THEN "epilogue" ELSE "startup"

\* Variant: the status of tlcl_lib_init() is not checked.
AfterLibInit_Unchecked(st, flag) == IF flag # 0 THEN "s3_helper" ELSE "startup"

\* Where tpm_setup continues after tlcl_lib_init(): a failure returns through
\* the epilogue, otherwise s3flag selects the resume helper or the startup.
AfterLibInit(st, flag) ==
  IF st # TPM_SUCCESS THEN "epilogue"
  ELSE IF flag # 0 THEN "s3_helper" ELSE "startup"

\* result = tlcl_lib_init().
LibInit ==
  /\ pc = "lib_init"
  /\ \E st \in Status :
       /\ calls' = Append(calls, Call("lib_init", 0, st, <<>>))
       /\ result' = st
       /\ pc' = AfterLibInit(st, s3flag)
  /\ UNCHANGED <<cfg, dev, s3flag, disabled, deactivated, epilogueArg,
                 postCodes, ret>>
  /\ UNCHANGED <<setupCompleted, xvars>>

\* Variant: the resume remaps invalid-post-init only under the startup policy.
ResumeStatus_PolicyBound(st) ==
  IF st = TPM_E_INVALID_POSTINIT /\ cfg.TPM_STARTUP_IGNORE_POSTINIT # 0
  THEN TPM_SUCCESS
  ELSE st

\* tpm_setup_s3_helper: the switch over the status of tlcl_resume().
ResumeStatus(st) ==
  IF st = TPM_SUCCESS THEN TPM_SUCCESS
  ELSE IF st = TPM_E_INVALID_POSTINIT THEN TPM_SUCCESS
  ELSE st

\* return tpm_setup_epilogue(tpm_setup_s3_helper()): one tlcl_resume() call,
\* its status remapped, handed to the epilogue.
tpm_setup_s3_helper ==
  /\ pc = "s3_helper"
  /\ \E st \in Status :
       /\ calls' = Append(calls, Call("resume", 0, st, <<>>))
       /\ result' = ResumeStatus(st)
  /\ pc' = "epilogue"
  /\ UNCHANGED <<cfg, dev, s3flag, disabled, deactivated, epilogueArg,
                 postCodes, ret>>
  /\ UNCHANGED <<setupCompleted, xvars>>

\* Variant: invalid-post-init is tolerated whatever the configuration.
StartupStatus_AlwaysTolerant(c, st) ==
  IF st = TPM_E_INVALID_POSTINIT THEN TPM_SUCCESS ELSE st

\* The remapping of the status of tlcl_startup():
\* CONFIG(TPM_STARTUP_IGNORE_POSTINIT) && result == TPM_E_INVALID_POSTINIT.
StartupStatus(c, st) ==
  IF c.TPM_STARTUP_IGNORE_POSTINIT # 0 /\ st = TPM_E_INVALID_POSTINIT
  THEN TPM_SUCCESS
  ELSE st

\* result = tlcl_startup(), remapped; non-success goes to the epilogue.
Startup ==
  /\ pc = "startup"
  /\ \E st \in Status :
       /\ calls' = Append(calls, Call("startup", 0, st, <<>>))
       /\ result' = StartupStatus(cfg, st)
       /\ pc' = IF StartupStatus(cfg, st) # TPM_SUCCESS THEN "epilogue"
                ELSE "assert_pp"
  /\ UNCHANGED <<cfg, dev, s3flag, disabled, deactivated, epilogueArg,
                 postCodes, ret>>
  /\ UNCHANGED <<setupCompleted, xvars>>

\* Variant: the reconciliation is not compiled out on the newer generation.
AfterPhysicalPresence_AlwaysReconciles(c) == "get_flags"

\* Where tpm_setup continues once physical presence is asserted:
\* #if CONFIG(TPM1) result = tpm1_invoke_state_machine(); #endif
AfterPhysicalPresence(c) == IF c.TPM1 # 0 THEN "get_flags" ELSE "epilogue"

\* First result = tlcl_assert_physical_presence().
AssertPhysicalPresence ==
  /\ pc = "assert_pp"
  /\ \E st \in Status :
       /\ calls' = Append(calls, Call("assert_physical_presence", 0, st, <<>>))
       /\ result' = st
       /\ pc' = IF st # TPM_SUCCESS THEN "pp_cmd_enable"
                ELSE AfterPhysicalPresence(cfg)
  /\ UNCHANGED <<cfg, dev, s3flag, disabled, deactivated, epilogueArg,
                 postCodes, ret>>
  /\ UNCHANGED <<setupCompleted, xvars>>

\* result = tlcl_physical_presence_cmd_enable() after a failed assertion.
PhysicalPresenceCmdEnable ==
  /\ pc = "pp_cmd_enable"
  /\ \E st \in Status :
       /\ calls' = Append(calls, Call("physical_presence_cmd_enable", 0, st, <<>>))
       /\ result' = st
       /\ pc' = IF st # TPM_SUCCESS THEN "epilogue" ELSE "assert_pp_retry"
  /\ UNCHANGED <<cfg, dev, s3flag, disabled, deactivated, epilogueArg,
                 postCodes, ret>>
  /\ UNCHANGED <<setupCompleted, xvars>>

\* Variant: the status of the retried assertion is not checked.
AfterRetry_Unchecked(c, st) == AfterPhysicalPresence(c)

\* Where tpm_setup continues after the retried assertion: its failure
\* returns through the epilogue.
AfterRetry(c, st) ==
  IF st # TPM_SUCCESS THEN "epilogue" ELSE AfterPhysicalPresence(c)

\* Second result = tlcl_assert_physical_presence().
AssertPhysicalPresenceRetry ==
  /\ pc = "assert_pp_retry"
  /\ \E st \in Status :
       /\ calls' = Append(calls, Call("assert_physical_presence", 0, st, <<>>))
       /\ result' = st
       /\ pc' = AfterRetry(cfg, st)
  /\ UNCHANGED <<cfg, dev, s3flag, disabled, deactivated, epilogueArg,
                 postCodes, ret>>
  /\ UNCHANGED <<setupCompleted, xvars>>

\* ------------------------------------------------------------------------
\* tpm1_invoke_state_machine (CONFIG(TPM1) only).

\* The device's side of tlcl_set_enable() and tlcl_set_deactivated(flag).
DevSetEnable(d) == [d EXCEPT !.disabled = 0]

DevSetDeactivated(d, flag) == [d EXCEPT !.deactivated = flag]

\* Variant: the comparison is inverted.
NeedsToggle_Inverted(c, deact) == Truth(deact) = c.TPM_DEACTIVATE

\* Variant: the flag byte is compared without being normalised by !!.
NeedsToggle_RawCompare(c, deact) == deact # c.TPM_DEACTIVATE

\* if (!!deactivated != CONFIG(TPM_DEACTIVATE))
NeedsToggle(c, deact) == Truth(deact) # c.TPM_DEACTIVATE

\* Variant: the value read is passed back instead of its negation.
ToggleArg_NoNegation(deact) == Truth(deact)

\* The argument of tlcl_set_deactivated(): !deactivated
ToggleArg(deact) == Not(deact)

\* Where the state machine continues after the enable step.
AfterEnable(c, deact) ==
  IF NeedsToggle(c, deact) THEN "set_deactivated" ELSE "epilogue"

\* Variant: only the byte 1 counts as disabled.
NeedsEnable_OnlyOne(dis) == dis = 1

\* if (disabled): is tlcl_set_enable() issued for the flags read?
NeedsEnable(dis) == dis # 0

\* result = tlcl_get_flags(&disabled, &deactivated, NULL).
GetFlags ==
  /\ pc = "get_flags"
  /\ \E st \in Status :
       /\ calls' =
            Append(calls,
                   Call("get_flags", 0, st,
                        IF st # TPM_SUCCESS THEN <<>>
                        ELSE <<dev.disabled, dev.deactivated>>))
       /\ result' = st
       /\ IF st # TPM_SUCCESS
          THEN /\ pc' = "epilogue"
               /\ UNCHANGED <<disabled, deactivated>>
          ELSE /\ disabled' = dev.disabled
               /\ deactivated' = dev.deactivated
               /\ pc' = IF NeedsEnable(dev.disabled) THEN "set_enable"
                        ELSE AfterEnable(cfg, dev.deactivated)
  /\ UNCHANGED <<cfg, dev, s3flag, epilogueArg, postCodes, ret>>
  /\ UNCHANGED <<setupCompleted, xvars>>

\* result = tlcl_set_enable() when the flags report disabled.
SetEnable ==
  /\ pc = "set_enable"
  /\ \E st \in Status :
       /\ calls' = Append(calls, Call("set_enable", 0, st, <<>>))
       /\ result' = st
       /\ IF st # TPM_SUCCESS
          THEN /\ pc' = "epilogue"
               /\ UNCHANGED dev
          ELSE /\ dev' = DevSetEnable(dev)
               /\ pc' = AfterEnable(cfg, deactivated)
  /\ UNCHANGED <<cfg, s3flag, disabled, deactivated, epilogueArg, postCodes,
                 ret>>
  /\ UNCHANGED <<setupCompleted, xvars>>

\* The result of the state machine once tlcl_set_deactivated() returned st:
\* its failure status, or TPM_E_MUST_REBOOT after a successful toggle.
ToggleResult(st) == IF st # TPM_SUCCESS THEN st ELSE TPM_E_MUST_REBOOT

\* result = tlcl_set_deactivated(!deactivated); success flips the local flag.
SetDeactivated ==
  /\ pc = "set_deactivated"
  /\ \E st \in Status :
       /\ calls' =
            Append(calls, Call("set_deactivated", ToggleArg(deactivated), st, <<>>))
       /\ result' = ToggleResult(st)
       /\ IF st # TPM_SUCCESS
          THEN UNCHANGED <<dev, deactivated>>
          ELSE /\ dev' = DevSetDeactivated(dev, ToggleArg(deactivated))
               /\ deactivated' = Not(deactivated)
  /\ pc' = "epilogue"
  /\ UNCHANGED <<cfg, s3flag, disabled, epilogueArg, postCodes, ret>>
  /\ UNCHANGED <<setupCompleted, xvars>>

\* ------------------------------------------------------------------------
\* tpm_setup_epilogue(result).

\* Variant: must-reboot is not signalled as a failure.
EpiloguePostCodes_SkipsMustReboot(st) ==
  IF st \notin {TPM_SUCCESS, TPM_E_MUST_REBOOT} THEN 1 ELSE 0

\* Number of post_code(POST_TPM_FAILURE) the epilogue emits for a status.
EpiloguePostCodes(st) == IF st # TPM_SUCCESS THEN 1 ELSE 0

\* Variant: the epilogue turns must-reboot into success.
EpilogueReturn_MasksMustReboot(st) ==
  IF st = TPM_E_MUST_REBOOT THEN TPM_SUCCESS ELSE st

\* The status the epilogue returns for the status it was given.
EpilogueReturn(st) == st

\* return tpm_setup_epilogue(result): every exit of tpm_setup.
tpm_setup_epilogue ==
  /\ pc = "epilogue"
  /\ epilogueArg' = result
  /\ postCodes' = postCodes + EpiloguePostCodes(result)
  /\ ret' = EpilogueReturn(result)
  /\ pc' = "done"
  /\ UNCHANGED <<cfg, dev, s3flag, result, disabled, deactivated, calls>>
  /\ setupCompleted' = TRUE
  /\ UNCHANGED xvars

\* The caller takes the status; tpm_setup may be called again (the recovery
\* boot repeats the sequence).
Return ==
  /\ pc = "done"
  /\ pc' = "idle"
  /\ UNCHANGED <<cfg, dev, s3flag, result, disabled, deactivated, calls,
                 epilogueArg, postCodes, ret>>
  /\ UNCHANGED <<setupCompleted, xvars>>

\* ------------------------------------------------------------------------
\* The functions besides tpm_setup.  Entering one drops the observations of
\* the last tpm_setup invocation; returning to the caller drops its own.

\* Variant: the boot flow extends PCRs without having set the TPM up.
BootFlowPermits_Unordered(name, completed) == TRUE

\* The order the boot flow calls this file in: the setup has completed
\* before any measurement or extension; the clear is an administrative path
\* of its own.
BootFlowPermits(name, completed) ==
  name \in {"tpm_extend_pcr", "tpm_measure_region"} => completed

\* The caller enters the function `name`.
Enter(name) ==
  /\ pc = "idle"
  /\ BootFlowPermits(name, setupCompleted)
  /\ fn' = name
  /\ trace' = <<>>
  /\ xret' = "none"
  /\ s3flag' = 0
  /\ result' = TPM_SUCCESS
  /\ disabled' = 0
  /\ deactivated' = 0
  /\ calls' = <<>>
  /\ epilogueArg' = "none"
  /\ postCodes' = 0
  /\ ret' = "none"
  /\ UNCHANGED <<cfg, dev, setupCompleted>>

\* The caller takes the status of the function that ran.
ReturnToCaller ==
  /\ pc = "x_done"
  /\ pc' = "idle"
  /\ fn' = "none"
  /\ trace' = <<>>
  /\ xret' = "none"
  /\ ext' = NoExtend
  /\ mr' = NoMeasure
  /\ offset' = 0
  /\ len' = 0
  /\ ctx' = <<>>
  /\ UNCHANGED <<cfg, dev, setupCompleted, svars>>

\* ------------------------------------------------------------------------
\* uint32_t tpm_clear_and_reenable(void): entry.
tpm_clear_and_reenable ==
  /\ Enter("tpm_clear_and_reenable")
  /\ pc' = "force_clear"
  /\ UNCHANGED <<ext, mr, offset, len, ctx>>

\* Variant: the re-enable steps are compiled in on both generations.
AfterForceClear_AlwaysReenables(c) == "clr_set_enable"

\* Where tpm_clear_and_reenable continues after a successful force clear:
\* #if CONFIG(TPM1) set_enable, set_deactivated #endif, return TPM_SUCCESS.
AfterForceClear(c) == IF c.TPM1 # 0 THEN "clr_set_enable" ELSE "x_done"

\* result = tlcl_force_clear().
ForceClear ==
  /\ pc = "force_clear"
  /\ \E st \in Status :
       /\ trace' = Append(trace, Call("force_clear", 0, st, <<>>))
       /\ pc' = IF st # TPM_SUCCESS THEN "x_done" ELSE AfterForceClear(cfg)
       /\ xret' = IF st # TPM_SUCCESS THEN st
                  ELSE IF AfterForceClear(cfg) = "x_done" THEN TPM_SUCCESS
                  ELSE "none"
  /\ UNCHANGED <<cfg, dev, setupCompleted, svars, fn, ext, mr, offset, len,
                 ctx>>

\* result = tlcl_set_enable() of tpm_clear_and_reenable.
ClearSetEnable ==
  /\ pc = "clr_set_enable"
  /\ \E st \in Status :
       /\ trace' = Append(trace, Call("set_enable", 0, st, <<>>))
       /\ IF st # TPM_SUCCESS
          THEN /\ xret' = st
               /\ pc' = "x_done"
               /\ UNCHANGED dev
          ELSE /\ xret' = "none"
               /\ pc' = "clr_set_deactivated"
               /\ dev' = DevSetEnable(dev)
  /\ UNCHANGED <<cfg, setupCompleted, svars, fn, ext, mr, offset, len, ctx>>

\* result = tlcl_set_deactivated(0), then return TPM_SUCCESS.
ClearSetDeactivated ==
  /\ pc = "clr_set_deactivated"
  /\ \E st \in Status :
       /\ trace' = Append(trace, Call("set_deactivated", 0, st, <<>>))
       /\ xret' = st
       /\ dev' = IF st # TPM_SUCCESS THEN dev ELSE DevSetDeactivated(dev, 0)
  /\ pc' = "x_done"
  /\ UNCHANGED <<cfg, setupCompleted, svars, fn, ext, mr, offset, len, ctx>>

\* ------------------------------------------------------------------------
\* tpm_extend_pcr(pcr, digest_algo, digest, digest_len, name).

\* What tpm_measure_region returns for the status of its tpm_extend_pcr call.
MeasureResult(r) == IF r # TPM_SUCCESS THEN r ELSE TPM_SUCCESS

\* The status the running function returns when tpm_extend_pcr returns r:
\* r itself, or what tpm_measure_region makes of it.
Returned(f, r) == IF f = "tpm_measure_region" THEN MeasureResult(r) ELSE r

\* Entry from the caller, with a digest of the caller or a null pointer.
tpm_extend_pcr ==
  /\ Enter("tpm_extend_pcr")
  /\ \E p \in Pcrs, a \in HashAlgorithms, null \in BOOLEAN :
       ext' = [pcr |-> p, digest_algo |-> a, digest |-> Digest(null, <<>>),
               name |-> "name"]
  /\ pc' = "ext_check"
  /\ UNCHANGED <<mr, offset, len, ctx>>

\* The switch over digest_algo under #if CONFIG(TPM2); "reject" for default.
AlgorithmId(c, algo) ==
  IF CONFIG_TPM2(c) = 0 THEN TPM_ALG_ZERO
  ELSE IF algo = VB2_HASH_SHA1 THEN TPM_ALG_SHA1
  ELSE IF algo = VB2_HASH_SHA256 THEN TPM_ALG_SHA256
  ELSE IF algo = VB2_HASH_SHA512 THEN TPM_ALG_SHA512
  ELSE "reject"

\* Variant: the algorithm is looked at before the digest pointer.
ExtendReject_AlgorithmFirst(c, e) ==
  IF AlgorithmId(c, e.digest_algo) = "reject" THEN TPM_E_HASH_ERROR
  ELSE IF e.digest.null THEN TPM_E_IOERROR
  ELSE "none"

\* The status tpm_extend_pcr returns before any device call, "none" if the
\* arguments pass: if (!digest) return TPM_E_IOERROR; default: return
\* TPM_E_HASH_ERROR.
ExtendReject(c, e) ==
  IF e.digest.null THEN TPM_E_IOERROR
  ELSE IF AlgorithmId(c, e.digest_algo) = "reject" THEN TPM_E_HASH_ERROR
  ELSE "none"

\* The argument checks of tpm_extend_pcr.
ExtendCheck ==
  /\ pc = "ext_check"
  /\ IF ExtendReject(cfg, ext) # "none"
     THEN /\ xret' = Returned(fn, ExtendReject(cfg, ext))
          /\ pc' = "x_done"
     ELSE /\ xret' = "none"
          /\ pc' = "ext_extend"
  /\ UNCHANGED <<cfg, dev, setupCompleted, svars, fn, trace, ext, mr, offset,
                 len, ctx>>

\* Variant: the log entry is added whatever the configuration.
AfterExtend_AlwaysLogs(c) == "ext_log"

\* Where tpm_extend_pcr continues after a successful tlcl_extend():
\* if (CONFIG(VBOOT_MEASURED_BOOT)) tcpa_log_add_table_entry(...).
AfterExtend(c) == IF c.VBOOT_MEASURED_BOOT # 0 THEN "ext_log" ELSE "x_done"

\* result = tlcl_extend(pcr, algorithm, digest, digest_len, NULL).
ExtendCommand ==
  /\ pc = "ext_extend"
  /\ \E st \in Status :
       /\ trace' =
            Append(trace,
                   Call("extend",
                        [pcr |-> ext.pcr,
                         algorithm |-> AlgorithmId(cfg, ext.digest_algo),
                         digest |-> ext.digest],
                        st, <<>>))
       /\ pc' = IF st # TPM_SUCCESS THEN "x_done" ELSE AfterExtend(cfg)
       /\ xret' = IF st # TPM_SUCCESS THEN Returned(fn, st)
                  ELSE IF AfterExtend(cfg) = "x_done"
                  THEN Returned(fn, TPM_SUCCESS)
                  ELSE "none"
  /\ UNCHANGED <<cfg, dev, setupCompleted, svars, fn, ext, mr, offset, len,
                 ctx>>

\* tcpa_log_add_table_entry(name, pcr, digest_algo, digest, digest_len), a
\* void function: the log may or may not take the entry; return TPM_SUCCESS.
ExtendLog ==
  /\ pc = "ext_log"
  /\ \E taken \in BOOLEAN :
       trace' =
         Append(trace,
                Call("tcpa_log_add_table_entry",
                     [name |-> ext.name, pcr |-> ext.pcr,
                      digest_algo |-> ext.digest_algo, digest |-> ext.digest],
                     "void", <<taken>>))
  /\ xret' = Returned(fn, TPM_SUCCESS)
  /\ pc' = "x_done"
  /\ UNCHANGED <<cfg, dev, setupCompleted, svars, fn, ext, mr, offset, len,
                 ctx>>

\* ------------------------------------------------------------------------
\* tpm_measure_region(rdev, pcr, rname).

\* Entry from the caller; the region has a size, the build a chunk size.
tpm_measure_region ==
  /\ Enter("tpm_measure_region")
  /\ \E r \in {"NULL", "rdev"}, n \in {"NULL", "rname"}, p \in Pcrs,
        sz \in RegionSizes, c \in ChunkSizes :
       mr' = [rdev |-> r, size |-> sz, chunk |-> c, pcr |-> p, rname |-> n]
  /\ pc' = "mr_check"
  /\ UNCHANGED <<ext, offset, len, ctx>>

\* if (!rdev || !rname) return TPM_E_INVALID_ARG.
MeasureCheck ==
  /\ pc = "mr_check"
  /\ IF mr.rdev = "NULL" \/ mr.rname = "NULL"
     THEN /\ xret' = TPM_E_INVALID_ARG
          /\ pc' = "x_done"
     ELSE /\ xret' = "none"
          /\ pc' = "mr_lib_init"
  /\ UNCHANGED <<cfg, dev, setupCompleted, svars, fn, trace, ext, mr, offset,
                 len, ctx>>

\* result = tlcl_lib_init() of tpm_measure_region.
MeasureLibInit ==
  /\ pc = "mr_lib_init"
  /\ \E st \in Status :
       /\ trace' = Append(trace, Call("lib_init", 0, st, <<>>))
       /\ xret' = IF st # TPM_SUCCESS THEN st ELSE "none"
       /\ pc' = IF st # TPM_SUCCESS THEN "x_done" ELSE "mr_digest_init"
  /\ UNCHANGED <<cfg, dev, setupCompleted, svars, fn, ext, mr, offset, len,
                 ctx>>

\* hash_alg: VB2_HASH_SHA1 under CONFIG(TPM1), else VB2_HASH_SHA256.
MeasureHashAlg(c) == IF c.TPM1 # 0 THEN VB2_HASH_SHA1 ELSE VB2_HASH_SHA256

\* The loop test offset < region_device_sz(rdev), compared as size_t.
LoopNext(off, size) == IF off < size THEN "mr_read" ELSE "mr_finalize"

\* vb2_digest_init(&ctx, hash_alg), then for (offset = 0; ...).
MeasureDigestInit ==
  /\ pc = "mr_digest_init"
  /\ \E st \in {"ok", "fail"} :
       /\ trace' =
            Append(trace, Call("digest_init", MeasureHashAlg(cfg), st, <<>>))
       /\ xret' = IF st = "fail" THEN TPM_E_HASH_ERROR ELSE "none"
       /\ pc' = IF st = "fail" THEN "x_done" ELSE LoopNext(0, mr.size)
  /\ ctx' = <<>>
  /\ offset' = 0
  /\ UNCHANGED <<cfg, dev, setupCompleted, svars, fn, ext, mr, len>>

\* len = MIN(sizeof(buf), region_device_sz(rdev) - offset).
ChunkLen(m, off) == Min(m.chunk, m.size - off)

\* Variant: a failed read is not noticed.
AfterRead_IgnoresFailure(st) == "mr_hash"

\* Where the loop continues after rdev_readat(): < 0 returns.
AfterRead(st) == IF st = "fail" THEN "x_done" ELSE "mr_hash"

\* Variant: a failed read is reported as an IO error.
ReadResult_IoError(st) == IF st = "fail" THEN TPM_E_IOERROR ELSE "none"

\* What tpm_measure_region returns after rdev_readat(), "none" to go on.
ReadResult(st) == IF st = "fail" THEN TPM_E_READ_FAILURE ELSE "none"

\* rdev_readat(rdev, buf, offset, len) < 0 returns TPM_E_READ_FAILURE.
MeasureRead ==
  /\ pc = "mr_read"
  /\ Len(ctx) < MaxChunks
  /\ len' = ChunkLen(mr, offset)
  /\ \E st \in {"ok", "fail"} :
       /\ trace' =
            Append(trace,
                   Call("readat", <<offset, ChunkLen(mr, offset)>>, st, <<>>))
       /\ pc' = AfterRead(st)
       /\ xret' = ReadResult(st)
  /\ UNCHANGED <<cfg, dev, setupCompleted, svars, fn, ext, mr, offset, ctx>>

\* offset += len in uint32_t arithmetic.
NextOffset(off, l) == (off + l) % OffsetMod

\* vb2_digest_extend(&ctx, buf, len), then offset += len and the loop test.
MeasureHash ==
  /\ pc = "mr_hash"
  /\ \E st \in {"ok", "fail"} :
       /\ trace' =
            Append(trace, Call("digest_extend", <<offset, len>>, st, <<>>))
       /\ IF st = "fail"
          THEN /\ xret' = TPM_E_HASH_ERROR
               /\ pc' = "x_done"
               /\ UNCHANGED <<offset, ctx>>
          ELSE /\ xret' = "none"
               /\ ctx' = Append(ctx, <<offset, len>>)
               /\ offset' = NextOffset(offset, len)
               /\ pc' = LoopNext(NextOffset(offset, len), mr.size)
  /\ UNCHANGED <<cfg, dev, setupCompleted, svars, fn, ext, mr, len>>

\* vb2_digest_finalize(&ctx, digest, digest_len), then
\* result = tpm_extend_pcr(pcr, hash_alg, digest, digest_len, rname).
MeasureFinalize ==
  /\ pc = "mr_finalize"
  /\ \E st \in {"ok", "fail"} :
       /\ trace' = Append(trace, Call("digest_finalize", 0, st, <<>>))
       /\ IF st = "fail"
          THEN /\ xret' = TPM_E_HASH_ERROR
               /\ pc' = "x_done"
               /\ UNCHANGED ext
          ELSE /\ xret' = "none"
               /\ pc' = "ext_check"
               /\ ext' = [pcr |-> mr.pcr, digest_algo |-> MeasureHashAlg(cfg),
                          digest |-> Digest(FALSE, ctx), name |-> mr.rname]
  /\ UNCHANGED <<cfg, dev, setupCompleted, svars, fn, mr, offset, len, ctx>>

Next ==
  \/ tpm_setup
  \/ LibInit
  \/ tpm_setup_s3_helper
  \/ Startup
  \/ AssertPhysicalPresence
  \/ PhysicalPresenceCmdEnable
  \/ AssertPhysicalPresenceRetry
  \/ GetFlags
  \/ SetEnable
  \/ SetDeactivated
  \/ tpm_setup_epilogue
  \/ Return
  \/ tpm_clear_and_reenable
  \/ ForceClear
  \/ ClearSetEnable
  \/ ClearSetDeactivated
  \/ tpm_extend_pcr
  \/ ExtendCheck
  \/ ExtendCommand
  \/ ExtendLog
  \/ tpm_measure_region
  \/ MeasureCheck
  \/ MeasureLibInit
  \/ MeasureDigestInit
  \/ MeasureRead
  \/ MeasureHash
  \/ MeasureFinalize
  \/ ReturnToCaller

Spec == Init /\ [][Next]_vars

TypeOK ==
  /\ cfg \in Configs
  /\ dev \in [disabled : FlagValues, deactivated : FlagValues]
  /\ pc \in {"idle", "lib_init", "s3_helper", "startup", "assert_pp",
             "pp_cmd_enable", "assert_pp_retry", "get_flags", "set_enable",
             "set_deactivated", "epilogue", "done", "x_done", "force_clear",
             "clr_set_enable", "clr_set_deactivated", "ext_check",
             "ext_extend", "ext_log", "mr_check", "mr_lib_init",
             "mr_digest_init", "mr_read", "mr_hash", "mr_finalize"}
  /\ s3flag \in {0, 1}
  /\ result \in Status
  /\ disabled \in FlagValues
  /\ deactivated \in FlagValues
  /\ ret \in Status \cup {"none"}
  /\ postCodes \in 0..1
  /\ setupCompleted \in BOOLEAN
  /\ fn \in {"none", "tpm_clear_and_reenable", "tpm_extend_pcr",
             "tpm_measure_region"}
  /\ xret \in Status \cup {"none", TPM_E_HASH_ERROR, TPM_E_READ_FAILURE,
                            TPM_E_INVALID_ARG}
  /\ ext.pcr \in Pcrs
  /\ ext.digest_algo \in HashAlgorithms \cup {"none"}
  /\ mr.size \in RegionSizes
  /\ mr.chunk \in ChunkSizes \cup {0}
  /\ offset \in 0..(OffsetMod - 1)
  /\ len \in 0..mr.chunk
  /\ Len(ctx) <= MaxChunks

\* ------------------------------------------------------------------------
\* Properties of tpm_setup.

\* Positions in `calls` of the calls named op.
Idx(op) == {i \in 1..Len(calls) : calls[i].op = op}

Count(op) == Cardinality(Idx(op))

\* Positions of the reconciliation calls (tpm1_invoke_state_machine).
ReconcileIdx == Idx("get_flags") \cup Idx("set_enable") \cup Idx("set_deactivated")

\* Positions of physical-presence assertions.
AssertIdx == Idx("assert_physical_presence")

\* The invocation has returned.
Finished == ret # "none"

\* The names of the calls issued so far, in order.
CallOps == [i \in 1..Len(calls) |-> calls[i].op]

\* C1: a resuming tpm_setup whose tlcl_lib_init() succeeded issues exactly
\* lib_init then resume and nothing else (no startup, no physical-presence
\* call, no get_flags / set_enable / set_deactivated), whatever resume returns.
C1_ResumeOnlyResumeCalls ==
  (s3flag # 0 /\ calls # <<>> /\ calls[1].st = TPM_SUCCESS) =>
    /\ CallOps \in {<<"lib_init">>, <<"lib_init", "resume">>}
    /\ Finished => CallOps = <<"lib_init", "resume">>

\* C1 witness: a finished resume whose tlcl_resume() failed.
C1_Witness ==
  /\ Finished
  /\ s3flag # 0
  /\ Len(calls) = 2
  /\ calls[1].st = TPM_SUCCESS
  /\ calls[2].op = "resume"
  /\ calls[2].st = TPM_E_IOERROR

\* C2: in a non-resume tpm_setup lib_init is the first call and, failing, the
\* only one; startup precedes every physical-presence assertion, and every
\* assertion precedes every reconciliation call.
C2_NormalBootOrder ==
  (s3flag = 0 /\ calls # <<>>) =>
    /\ calls[1].op = "lib_init"
    /\ Idx("lib_init") = {1}
    /\ calls[1].st # TPM_SUCCESS => Len(calls) = 1
    /\ \A i \in AssertIdx \cup ReconcileIdx \cup
                Idx("physical_presence_cmd_enable") :
         \E j \in Idx("startup") : j < i
    /\ \A r \in ReconcileIdx : AssertIdx # {} /\ \A a \in AssertIdx : a < r
    /\ Idx("resume") = {}

\* C2 witness: a finished boot that asserted twice and then reconciled.
C2_Witness ==
  /\ Finished
  /\ s3flag = 0
  /\ Count("assert_physical_presence") = 2
  /\ Count("set_enable") = 1
  /\ Count("set_deactivated") = 1

\* C3: on every exit of tpm_setup the failure post code was emitted once if
\* the returned status is not TPM_SUCCESS and never if it is, none is emitted
\* before the epilogue, and the returned status is the status the epilogue
\* was given.
C3_EpilogueSignalsOnce ==
  /\ ~Finished => postCodes = 0
  /\ Finished =>
       /\ postCodes = (IF ret # TPM_SUCCESS THEN 1 ELSE 0)
       /\ ret = epilogueArg
       /\ ret = result

\* C3 witness: a failed invocation with its one post code.
C3_Witness ==
  /\ Finished
  /\ ret = TPM_E_COMMUNICATION_ERROR
  /\ epilogueArg = TPM_E_COMMUNICATION_ERROR
  /\ postCodes = 1

\* The last device call of the invocation was a successful toggle.
ToggleSucceeded ==
  /\ calls # <<>>
  /\ calls[Len(calls)].op = "set_deactivated"
  /\ calls[Len(calls)].st = TPM_SUCCESS

\* C4 as stated: the failure post code is emitted only for non-success
\* statuses other than TPM_E_MUST_REBOOT.
C4_MustRebootNotSignalled ==
  (Finished /\ postCodes > 0) => ret \notin {TPM_SUCCESS, TPM_E_MUST_REBOOT}

\* C4 amended: a successful deactivate toggle makes tpm_setup return
\* TPM_E_MUST_REBOOT, never TPM_SUCCESS, and the epilogue emits the failure
\* post code once for it, as for any other non-success status.
C4_MustRebootSignalled ==
  /\ (Finished /\ ToggleSucceeded) => ret = TPM_E_MUST_REBOOT
  /\ (Finished /\ ret = TPM_E_MUST_REBOOT) => postCodes = 1

\* C4 witness: tpm_setup returned must-reboot after a successful toggle.
C4_Witness ==
  /\ Finished
  /\ ToggleSucceeded
  /\ ret = TPM_E_MUST_REBOOT
  /\ postCodes = 1

\* C5 as stated: after any tpm_setup that returns TPM_SUCCESS, resuming or
\* not, the device's deactivated flag equals CONFIG(TPM_DEACTIVATE).
C5_DeactivatedMatchesPolicyAlways ==
  (Finished /\ ret = TPM_SUCCESS) =>
    Truth(dev.deactivated) = cfg.TPM_DEACTIVATE

\* C5 amended: after a non-resume tpm_setup on the older generation that
\* returns TPM_SUCCESS the device's deactivated flag equals
\* CONFIG(TPM_DEACTIVATE); a toggle is reported as must-reboot, not success.
C5_DeactivatedMatchesPolicyTpm1Boot ==
  (Finished /\ ret = TPM_SUCCESS /\ s3flag = 0 /\ cfg.TPM1 # 0) =>
    /\ Truth(dev.deactivated) = cfg.TPM_DEACTIVATE
    /\ Count("set_deactivated") = 0

\* C5 witness: a successful older-generation boot that had to enable the
\* device and found the deactivated flag at the policy value.
C5_Witness ==
  /\ Finished
  /\ ret = TPM_SUCCESS
  /\ s3flag = 0
  /\ cfg.TPM1 # 0
  /\ cfg.TPM_DEACTIVATE = 1
  /\ Count("set_enable") = 1
  /\ dev.deactivated = MaxFlag

\* ------------------------------------------------------------------------
\* Properties of the reconciliation (tpm1_invoke_state_machine).

\* tlcl_get_flags() was issued and succeeded.
FlagsRead == \E i \in Idx("get_flags") : calls[i].st = TPM_SUCCESS

\* The flag values tlcl_get_flags() stored (meaningful under FlagsRead).
ReadFlags == calls[CHOOSE i \in Idx("get_flags") : TRUE].out

ReadDisabled == ReadFlags[1]

ReadDeactivated == ReadFlags[2]

\* The flags were read and deactivated agrees / disagrees with the policy.
PolicyMet == FlagsRead /\ Truth(ReadDeactivated) = cfg.TPM_DEACTIVATE

PolicyMissed == FlagsRead /\ Truth(ReadDeactivated) # cfg.TPM_DEACTIVATE

\* The status of the only call named op (meaningful when Count(op) = 1).
StatusOf(op) == calls[CHOOSE i \in Idx(op) : TRUE].st

\* C6 as stated: when the flags read have deactivated at the policy value,
\* reconciliation issues neither set_enable nor set_deactivated and returns
\* TPM_SUCCESS, whatever the disabled flag is.
C6_PolicyMetNoStateChange ==
  PolicyMet =>
    /\ Count("set_enable") = 0
    /\ Count("set_deactivated") = 0
    /\ Finished => ret = TPM_SUCCESS

\* C6 amended: when the flags read have deactivated at the policy value,
\* reconciliation never issues set_deactivated; it issues set_enable once if
\* disabled was reported and not at all otherwise, and returns TPM_SUCCESS
\* unless that set_enable fails, whose status it then returns.
C6_PolicyMetNoToggle ==
  PolicyMet =>
    /\ Count("set_deactivated") = 0
    /\ pc # "set_deactivated"
    /\ ReadDisabled = 0 =>
         /\ Count("set_enable") = 0
         /\ Finished => ret = TPM_SUCCESS
    /\ (ReadDisabled # 0 /\ Finished) =>
         /\ Count("set_enable") = 1
         /\ ret = StatusOf("set_enable")

\* C6 witness: the policy was met on a disabled device, set_enable was
\* issued and setup returned TPM_SUCCESS.
C6_Witness ==
  /\ Finished
  /\ PolicyMet
  /\ ReadDisabled # 0
  /\ ReadDeactivated = MaxFlag
  /\ Count("set_enable") = 1
  /\ ret = TPM_SUCCESS

\* No enable was required, or the one issued succeeded.
EnableDone ==
  \/ ReadDisabled = 0
  \/ \E i \in Idx("set_enable") : calls[i].st = TPM_SUCCESS

\* C7: when the flags read have deactivated off the policy value (and any
\* required enable succeeded), reconciliation issues exactly one
\* set_deactivated, its argument the negation of the value read, which is the
\* policy value; tpm_setup returns TPM_E_MUST_REBOOT if it succeeds and its
\* status if it fails.
C7_PolicyMissedOneToggle ==
  (PolicyMissed /\ EnableDone) =>
    /\ Count("set_deactivated") <= 1
    /\ pc \in {"set_deactivated", "epilogue", "done", "idle"}
    /\ pc = "set_deactivated" <=> Count("set_deactivated") = 0
    /\ \A i \in Idx("set_deactivated") :
         /\ calls[i].arg = Not(ReadDeactivated)
         /\ calls[i].arg = cfg.TPM_DEACTIVATE
         /\ i = Len(calls)
         /\ pc = "epilogue" =>
              result = (IF calls[i].st = TPM_SUCCESS THEN TPM_E_MUST_REBOOT
                        ELSE calls[i].st)
         /\ Finished =>
              ret = (IF calls[i].st = TPM_SUCCESS THEN TPM_E_MUST_REBOOT
                     ELSE calls[i].st)
    /\ Finished => ret # TPM_SUCCESS

\* C7 witness: a toggle of a flag read as a byte other than 0 and 1 that
\* failed, its status returned.
C7_Witness ==
  /\ Finished
  /\ PolicyMissed
  /\ ReadDeactivated = MaxFlag
  /\ Count("set_enable") = 1
  /\ Count("set_deactivated") = 1
  /\ StatusOf("set_deactivated") = TPM_E_IOERROR
  /\ ret = TPM_E_IOERROR

\* C8: when the flags read report disabled, reconciliation issues exactly one
\* set_enable, before the policy comparison and before any set_deactivated;
\* a failing set_enable is returned with no set_deactivated issued; when the
\* flags report enabled no set_enable is issued.
C8_EnableBeforeToggle ==
  FlagsRead =>
    /\ ReadDisabled = 0 => Count("set_enable") = 0 /\ pc # "set_enable"
    /\ ReadDisabled # 0 =>
         /\ Count("set_enable") <= 1
         /\ pc = "set_enable" <=> Count("set_enable") = 0
         /\ \A e \in Idx("set_enable") :
              /\ \A g \in Idx("get_flags") : e = g + 1
              /\ \A t \in Idx("set_deactivated") : e < t
              /\ calls[e].st # TPM_SUCCESS =>
                   /\ Count("set_deactivated") = 0
                   /\ pc \in {"epilogue", "done", "idle"}
                   /\ result = calls[e].st
                   /\ Finished => ret = calls[e].st

\* C8 witness: a failed set_enable ended the setup.
C8_Witness ==
  /\ Finished
  /\ FlagsRead
  /\ ReadDisabled # 0
  /\ PolicyMissed
  /\ Count("set_enable") = 1
  /\ StatusOf("set_enable") = TPM_E_COMMUNICATION_ERROR
  /\ ret = TPM_E_COMMUNICATION_ERROR

\* ------------------------------------------------------------------------
\* Properties of the physical-presence and startup steps.

CmdEnableIdx == Idx("physical_presence_cmd_enable")

\* The first assertion failed, the command enable succeeded and the retried
\* assertion succeeded.
Remediated ==
  \E a \in AssertIdx :
    /\ a + 1 \in CmdEnableIdx
    /\ a + 2 \in AssertIdx
    /\ calls[a].st # TPM_SUCCESS
    /\ calls[a + 1].st = TPM_SUCCESS
    /\ calls[a + 2].st = TPM_SUCCESS

\* The remediation broke off: the command enable failed, or the assertion
\* retried after it did.
RemediationFailed ==
  \/ \E e \in CmdEnableIdx : calls[e].st # TPM_SUCCESS
  \/ \E a \in AssertIdx : a - 1 \in CmdEnableIdx /\ calls[a].st # TPM_SUCCESS

\* What C9 says of the number and order of the physical-presence calls and
\* of a failed remediation.
PresenceRemediatedOnce ==
  /\ Count("assert_physical_presence") <= 2
  /\ Count("physical_presence_cmd_enable") <= 1
  /\ \A e \in CmdEnableIdx :
       /\ e - 1 \in AssertIdx
       /\ calls[e - 1].st # TPM_SUCCESS
  /\ \A a, b \in AssertIdx :
       a < b => /\ b = a + 2
                /\ calls[a].st # TPM_SUCCESS
                /\ a + 1 \in CmdEnableIdx
                /\ calls[a + 1].st = TPM_SUCCESS
  /\ RemediationFailed =>
       /\ ReconcileIdx = {}
       /\ calls[Len(calls)].st # TPM_SUCCESS
       /\ pc \in {"epilogue", "done", "idle"}
       /\ result = calls[Len(calls)].st
       /\ Finished => ret = calls[Len(calls)].st

\* C9 as stated: physical presence is remediated at most once, a failed
\* remediation is returned with no reconciliation call, and a remediation
\* that succeeds yields overall TPM_SUCCESS with two assertions and one
\* command enable.
C9_RemediationYieldsSuccess ==
  s3flag = 0 =>
    /\ PresenceRemediatedOnce
    /\ (Finished /\ Remediated) =>
         /\ Count("assert_physical_presence") = 2
         /\ Count("physical_presence_cmd_enable") = 1
         /\ ret = TPM_SUCCESS

\* The calls issued after the last physical-presence assertion.
AfterAssertIdx == {i \in 1..Len(calls) : \A a \in AssertIdx : a < i}

\* C9 amended: as C9, but a remediation that succeeds yields TPM_SUCCESS on
\* the newer generation, and on the older generation goes on to the
\* reconciliation and yields TPM_SUCCESS exactly when that issues no failing
\* call and no toggle.
C9_RemediationThenReconcile ==
  s3flag = 0 =>
    /\ PresenceRemediatedOnce
    /\ (Finished /\ Remediated) =>
         /\ Count("assert_physical_presence") = 2
         /\ Count("physical_presence_cmd_enable") = 1
         /\ cfg.TPM1 = 0 => ret = TPM_SUCCESS /\ AfterAssertIdx = {}
         /\ cfg.TPM1 # 0 =>
              /\ Count("get_flags") = 1
              /\ AfterAssertIdx = ReconcileIdx
              /\ ret = TPM_SUCCESS <=>
                   \A i \in ReconcileIdx :
                     calls[i].st = TPM_SUCCESS /\ calls[i].op # "set_deactivated"

\* C9 witness: a remediated assertion on the newer generation, two
\* assertions, one command enable, TPM_SUCCESS.
C9_Witness ==
  /\ Finished
  /\ s3flag = 0
  /\ Remediated
  /\ cfg.TPM1 = 0
  /\ Count("assert_physical_presence") = 2
  /\ Count("physical_presence_cmd_enable") = 1
  /\ ret = TPM_SUCCESS

\* The status tlcl_startup() returned (meaningful once it was issued).
StartupIssued == Count("startup") = 1

StartupSt == StatusOf("startup")

\* C10: an invalid-post-init answer to startup is taken as success, the flow
\* going on to the physical-presence assertion, if and only if
\* CONFIG(TPM_STARTUP_IGNORE_POSTINIT) is set; otherwise it, like every other
\* non-success startup status, is returned with no physical-presence and no
\* reconciliation call.
C10_PostInitToleratedByPolicy ==
  (s3flag = 0 /\ StartupIssued /\ StartupSt # TPM_SUCCESS) =>
    IF StartupSt = TPM_E_INVALID_POSTINIT /\ cfg.TPM_STARTUP_IGNORE_POSTINIT # 0
    THEN /\ pc # "startup"
         /\ Len(calls) = 2 => pc = "assert_pp" /\ result = TPM_SUCCESS
         /\ Finished => AssertIdx # {}
    ELSE /\ Len(calls) = 2
         /\ AssertIdx \cup CmdEnableIdx \cup ReconcileIdx = {}
         /\ pc \in {"epilogue", "done", "idle"}
         /\ result = StartupSt
         /\ Finished => ret = StartupSt

\* C10 witness: a tolerated invalid-post-init after which the physical
\* presence was asserted.
C10_Witness ==
  /\ Finished
  /\ s3flag = 0
  /\ StartupIssued
  /\ StartupSt = TPM_E_INVALID_POSTINIT
  /\ cfg.TPM_STARTUP_IGNORE_POSTINIT # 0
  /\ AssertIdx # {}
  /\ ret = TPM_SUCCESS

\* C10 witness of the other side: invalid-post-init returned as a failure.
C10_WitnessIntolerant ==
  /\ Finished
  /\ StartupIssued
  /\ StartupSt = TPM_E_INVALID_POSTINIT
  /\ cfg.TPM_STARTUP_IGNORE_POSTINIT = 0
  /\ ret = TPM_E_INVALID_POSTINIT

\* ------------------------------------------------------------------------
\* Properties of the resume path and of the flag accesses of tpm_setup.

\* tlcl_resume() was issued.
ResumeIssued == Count("resume") = 1

ResumeSt == StatusOf("resume")

\* C11: on the resume path tpm_setup returns TPM_SUCCESS exactly when
\* tlcl_resume() returned TPM_SUCCESS or TPM_E_INVALID_POSTINIT, whatever
\* CONFIG(TPM_STARTUP_IGNORE_POSTINIT) is, and any other resume status
\* unchanged.
C11_ResumeStatusRemap ==
  (s3flag # 0 /\ ResumeIssued) =>
    /\ pc \in {"epilogue", "done", "idle"}
    /\ result = (IF ResumeSt \in {TPM_SUCCESS, TPM_E_INVALID_POSTINIT}
                 THEN TPM_SUCCESS ELSE ResumeSt)
    /\ Finished =>
         /\ ret = TPM_SUCCESS <=>
              ResumeSt \in {TPM_SUCCESS, TPM_E_INVALID_POSTINIT}
         /\ ResumeSt \notin {TPM_SUCCESS, TPM_E_INVALID_POSTINIT} =>
              ret = ResumeSt

\* C11 witness: invalid-post-init on resume returned as success although the
\* startup tolerance is off.
C11_Witness ==
  /\ Finished
  /\ s3flag # 0
  /\ ResumeIssued
  /\ ResumeSt = TPM_E_INVALID_POSTINIT
  /\ cfg.TPM_STARTUP_IGNORE_POSTINIT = 0
  /\ ret = TPM_SUCCESS

\* C11 witness of the other side: a resume failure returned unchanged.
C11_WitnessFailure ==
  /\ Finished
  /\ ResumeIssued
  /\ ResumeSt = TPM_E_MUST_REBOOT
  /\ ret = TPM_E_MUST_REBOOT

\* tpm_setup went past the physical-presence step: the last assertion
\* succeeded.
PresenceAsserted == \E a \in AssertIdx : calls[a].st = TPM_SUCCESS

\* C19: one tpm_setup invocation issues get_flags at most once (exactly once
\* when an older-generation boot reaches the reconciliation), set_enable at
\* most once, set_deactivated at most once, never set_enable after
\* set_deactivated; on the newer generation it issues none of the three.
C19_FlagsReadOnceMutatedTwice ==
  /\ Count("get_flags") <= 1
  /\ Count("set_enable") <= 1
  /\ Count("set_deactivated") <= 1
  /\ \A e \in Idx("set_enable") : \A t \in Idx("set_deactivated") : e < t
  /\ \A g \in Idx("get_flags") :
       \A m \in Idx("set_enable") \cup Idx("set_deactivated") : g < m
  /\ (cfg.TPM1 # 0 /\ s3flag = 0 /\ PresenceAsserted /\ pc # "get_flags") =>
       Count("get_flags") = 1
  /\ (cfg.TPM1 # 0 /\ pc = "get_flags") => PresenceAsserted
  /\ cfg.TPM1 = 0 => ReconcileIdx = {} /\ pc \notin {"get_flags", "set_enable", "set_deactivated"}
  /\ s3flag # 0 => ReconcileIdx = {}

\* C19 witness: an older-generation boot that read the flags once and
\* mutated them twice, enable before toggle.
C19_Witness ==
  /\ Finished
  /\ cfg.TPM1 # 0
  /\ Count("get_flags") = 1
  /\ Count("set_enable") = 1
  /\ Count("set_deactivated") = 1
  /\ ret = TPM_E_MUST_REBOOT

\* C19 witness on the newer generation: a finished boot with no flag access.
C19_WitnessTpm2 ==
  /\ Finished
  /\ cfg.TPM1 = 0
  /\ s3flag = 0
  /\ PresenceAsserted
  /\ ret = TPM_SUCCESS

\* ------------------------------------------------------------------------
\* Properties of tpm_clear_and_reenable.

\* Positions in `trace` of the calls named op.
TIdx(op) == {i \in 1..Len(trace) : trace[i].op = op}

TCount(op) == Cardinality(TIdx(op))

\* The names of the calls of `trace`, in order.
TraceOps == [i \in 1..Len(trace) |-> trace[i].op]

\* s is a prefix of t.
IsPrefix(s, t) == Len(s) <= Len(t) /\ \A i \in 1..Len(s) : s[i] = t[i]

\* The function besides tpm_setup has returned.
XFinished == pc = "x_done"

\* The calls tpm_clear_and_reenable issues when none fails.
ClearSequence(c) ==
  IF c.TPM1 # 0 THEN <<"force_clear", "set_enable", "set_deactivated">>
  ELSE <<"force_clear">>

\* C16: tpm_clear_and_reenable issues force_clear, set_enable,
\* set_deactivated(0) in that order on the older generation and force_clear
\* alone on the newer one; it stops at the first failing call and returns its
\* status, and returns TPM_SUCCESS only when every call succeeded; it issues
\* no other device call.
C16_ClearThenReenableInOrder ==
  fn = "tpm_clear_and_reenable" =>
    /\ IsPrefix(TraceOps, ClearSequence(cfg))
    /\ \A i \in TIdx("set_deactivated") : trace[i].arg = 0
    /\ \A i \in 1..Len(trace) :
         trace[i].st # TPM_SUCCESS =>
           /\ i = Len(trace)
           /\ XFinished
           /\ xret = trace[i].st
    /\ XFinished =>
         /\ trace # <<>>
         /\ xret = trace[Len(trace)].st
         /\ xret = TPM_SUCCESS => TraceOps = ClearSequence(cfg)
    /\ XFinished <=> xret # "none"

\* C16 witness: on the older generation the force clear succeeded, the
\* enable failed and nothing followed.
C16_Witness ==
  /\ fn = "tpm_clear_and_reenable"
  /\ XFinished
  /\ cfg.TPM1 # 0
  /\ TraceOps = <<"force_clear", "set_enable">>
  /\ xret = TPM_E_IOERROR

\* C16 witness of the complete sequence.
C16_WitnessComplete ==
  /\ fn = "tpm_clear_and_reenable"
  /\ XFinished
  /\ TraceOps = <<"force_clear", "set_enable", "set_deactivated">>
  /\ xret = TPM_SUCCESS

\* ------------------------------------------------------------------------
\* Properties of tpm_extend_pcr.

LogIdx == TIdx("tcpa_log_add_table_entry")

\* tpm_extend_pcr stopped at its argument checks: no extend command and no
\* log entry, now or later.
RejectedBeforeDevice ==
  /\ TIdx("extend") = {}
  /\ LogIdx = {}
  /\ pc \in {"ext_check", "x_done"}

RecognisedAlgorithms == {VB2_HASH_SHA1, VB2_HASH_SHA256, VB2_HASH_SHA512}

\* C12: tpm_extend_pcr returns TPM_E_IOERROR for a null digest and, on the
\* newer generation, TPM_E_HASH_ERROR for an algorithm other than
\* SHA-1/256/512, both without an extend command or a log entry, the null
\* digest taking precedence; on the older generation no algorithm is
\* rejected.
C12_ExtendRejectsBadInput ==
  fn = "tpm_extend_pcr" =>
    /\ ext.digest.null =>
         /\ RejectedBeforeDevice
         /\ XFinished => xret = TPM_E_IOERROR
    /\ (~ext.digest.null /\ cfg.TPM1 = 0
        /\ ext.digest_algo \notin RecognisedAlgorithms) =>
         /\ RejectedBeforeDevice
         /\ XFinished => xret = TPM_E_HASH_ERROR
    /\ (~ext.digest.null
        /\ (cfg.TPM1 # 0 \/ ext.digest_algo \in RecognisedAlgorithms)) =>
         /\ XFinished => TCount("extend") = 1
         /\ pc # "ext_check" => pc = "ext_extend" \/ TCount("extend") = 1

\* C12 witness: a null digest with an unrecognised algorithm on the newer
\* generation, returned as an IO error.
C12_Witness ==
  /\ fn = "tpm_extend_pcr"
  /\ XFinished
  /\ cfg.TPM1 = 0
  /\ ext.digest.null
  /\ ext.digest_algo = VB2_HASH_INVALID
  /\ xret = TPM_E_IOERROR
  /\ trace = <<>>

\* C12 witness: the unrecognised algorithm rejected on the newer generation.
C12_WitnessHashError ==
  /\ fn = "tpm_extend_pcr"
  /\ XFinished
  /\ ~ext.digest.null
  /\ xret = TPM_E_HASH_ERROR
  /\ trace = <<>>

\* C12 witness: the unrecognised algorithm extended on the older generation.
C12_WitnessTpm1 ==
  /\ fn = "tpm_extend_pcr"
  /\ XFinished
  /\ cfg.TPM1 # 0
  /\ ext.digest_algo = VB2_HASH_INVALID
  /\ TCount("extend") = 1

\* C13: when tpm_extend_pcr reaches the device it returns the status of the
\* extend command; the log entry (name, pcr, algorithm, digest) is added
\* once, after the command, exactly when the command succeeded and
\* CONFIG(VBOOT_MEASURED_BOOT) is set, and whether the log took the entry
\* does not change the status.
C13_ExtendStatusAndLog ==
  /\ TCount("extend") <= 1
  /\ TCount("tcpa_log_add_table_entry") <= 1
  /\ \A l \in LogIdx :
       /\ l - 1 \in TIdx("extend")
       /\ trace[l - 1].st = TPM_SUCCESS
       /\ cfg.VBOOT_MEASURED_BOOT # 0
       /\ trace[l].arg = [name |-> ext.name, pcr |-> ext.pcr,
                          digest_algo |-> ext.digest_algo,
                          digest |-> ext.digest]
       /\ XFinished
       /\ xret = TPM_SUCCESS
  /\ \A e \in TIdx("extend") :
       /\ XFinished => xret = trace[e].st
       /\ (XFinished /\ trace[e].st = TPM_SUCCESS
           /\ cfg.VBOOT_MEASURED_BOOT # 0) => LogIdx = {e + 1}
       /\ trace[e].st # TPM_SUCCESS => XFinished /\ LogIdx = {}
       /\ trace[e].arg.pcr = ext.pcr
       /\ trace[e].arg.digest = ext.digest

\* C13 witness: the log did not take the entry and tpm_extend_pcr returned
\* TPM_SUCCESS all the same.
C13_Witness ==
  /\ fn = "tpm_extend_pcr"
  /\ XFinished
  /\ TCount("extend") = 1
  /\ \E l \in LogIdx : trace[l].out = <<FALSE>>
  /\ xret = TPM_SUCCESS

\* C13 witness: a failed extend command returned, nothing logged.
C13_WitnessFailure ==
  /\ fn = "tpm_extend_pcr"
  /\ XFinished
  /\ cfg.VBOOT_MEASURED_BOOT # 0
  /\ TCount("extend") = 1
  /\ LogIdx = {}
  /\ xret = TPM_E_COMMUNICATION_ERROR

\* ------------------------------------------------------------------------
\* Properties of tpm_measure_region.

Measuring == fn = "tpm_measure_region"

\* The chunk loop has ended: the hash is being or has been finalized.
LoopEnded == pc = "mr_finalize" \/ TIdx("digest_finalize") # {}

\* Number of chunks of size c that cover sz bytes.
CeilDiv(sz, c) == (sz + c - 1) \div c

RECURSIVE SumLens(_)
\* Sum of the lengths of a sequence of chunks <<offset, length>>.
SumLens(chunks) ==
  IF chunks = <<>> THEN 0 ELSE Head(chunks)[2] + SumLens(Tail(chunks))

\* The reads issued, as <<offset, length>>, in order.
ReadArgs ==
  LET reads == SelectSeq(trace, LAMBDA c : c.op = "readat")
  IN [k \in 1..Len(reads) |-> reads[k].arg]

\* No read and no hash step failed.
NoStepFailed == \A i \in 1..Len(trace) : trace[i].st # "fail"

\* C14: with no failing read or hash step, the reads of tpm_measure_region
\* are at offsets 0, C, 2C, ..., each of length min(C, S - offset) > 0, fed
\* to the hash in this order; once the loop has ended their lengths sum to S;
\* the extension is called once, after the last read, with the digest over
\* them; an empty region has no read and no hash update and is still
\* extended once.
C14_ChunksCoverRegion ==
  (Measuring /\ NoStepFailed) =>
    /\ \A k \in 1..Len(ReadArgs) :
         /\ ReadArgs[k][1] = (k - 1) * mr.chunk
         /\ ReadArgs[k][2] = Min(mr.chunk, mr.size - ReadArgs[k][1])
         /\ ReadArgs[k][2] > 0
    /\ IsPrefix(ctx, ReadArgs)
    /\ Len(ReadArgs) <= Len(ctx) + 1
    /\ LoopEnded =>
         /\ ReadArgs = ctx
         /\ SumLens(ctx) = mr.size
         /\ mr.size = 0 => ctx = <<>> /\ TIdx("digest_extend") = {}
    /\ TCount("extend") <= 1
    /\ \A e \in TIdx("extend") :
         /\ trace[e - 1].op = "digest_finalize"
         /\ \A r \in TIdx("readat") : r < e
         /\ trace[e].arg.digest = Digest(FALSE, ctx)
         /\ SumLens(trace[e].arg.digest.chunks) = mr.size
    /\ (XFinished /\ mr.rdev # "NULL" /\ mr.rname # "NULL"
        /\ trace[1].st = TPM_SUCCESS) => TCount("extend") = 1

\* The chunks fed to the hash start at strictly increasing offsets.
OffsetsIncrease ==
  \A i, j \in 1..Len(ctx) : i < j => ctx[i][1] < ctx[j][1]

\* C20: the chunk loop of tpm_measure_region ends after exactly ceil(S/C)
\* reads with offset = S; the offset counter strictly increases with every
\* iteration and never wraps, also for S at or above the counter's range.
C20_OffsetNeverWraps ==
  Measuring =>
    /\ Len(ReadArgs) <= CeilDiv(mr.size, mr.chunk)
    /\ offset <= mr.size
    /\ OffsetsIncrease
    /\ (LoopEnded /\ NoStepFailed) =>
         /\ offset = mr.size
         /\ Len(ReadArgs) = CeilDiv(mr.size, mr.chunk)

\* What C14 and C20 say, for the regions whose size the counter holds.
MeasureWithinCounterRange ==
  (Measuring /\ mr.size < OffsetMod) =>
    /\ C14_ChunksCoverRegion
    /\ C20_OffsetNeverWraps
    /\ pc = "mr_read" => Len(ctx) < MaxChunks

\* A region as large as the counter's range has been read to its end and
\* the loop read it again from offset 0.
MeasureWrapped ==
  /\ Measuring
  /\ mr.size >= OffsetMod
  /\ \E k \in 2..Len(ReadArgs) : ReadArgs[k][1] = 0

\* A read failed.
ReadFailed == \E r \in TIdx("readat") : trace[r].st = "fail"

\* After a failed read nothing follows: it is the last call, the chunk is not
\* hashed, the hash is not finalized, nothing is extended or logged.
AbortedAtRead ==
  /\ \A r \in TIdx("readat") : trace[r].st = "fail" => r = Len(trace)
  /\ XFinished
  /\ Len(ctx) = TCount("readat") - 1
  /\ TCount("digest_extend") = TCount("readat") - 1
  /\ TIdx("digest_finalize") = {}
  /\ TIdx("extend") = {}
  /\ LogIdx = {}

\* C15 as stated: a failed read aborts tpm_measure_region at once with the
\* IO-error status.
C15_ReadFailureIsIoError ==
  (Measuring /\ ReadFailed) => AbortedAtRead /\ xret = TPM_E_IOERROR

\* C15 amended: a failed read aborts tpm_measure_region at once with the
\* read-failure status TPM_E_READ_FAILURE: no later read, the chunk not
\* hashed, no finalization, no extension, no log entry.
C15_ReadFailureAborts ==
  (Measuring /\ ReadFailed) => AbortedAtRead /\ xret = TPM_E_READ_FAILURE

\* C15 witness: the third read of a region failed.
C15_Witness ==
  /\ Measuring
  /\ XFinished
  /\ ReadFailed
  /\ TCount("readat") = 3
  /\ Len(ctx) = 2
  /\ xret = TPM_E_READ_FAILURE

\* ------------------------------------------------------------------------
\* Properties across the functions.

Remapped(c) ==
  /\ c.st = TPM_E_INVALID_POSTINIT
  /\ \/ c.op = "resume"
     \/ c.op = "startup" /\ cfg.TPM_STARTUP_IGNORE_POSTINIT # 0

\* Call c returned a non-success status.
Failed(c) == c.st \notin {TPM_SUCCESS, "ok", "void"}

\* In the functions besides tpm_setup a failed call is the last one and the
\* function has returned a non-success status.
TraceStopsAtFailure ==
  \A i \in 1..Len(trace) :
    Failed(trace[i]) =>
      /\ i = Len(trace)
      /\ XFinished
      /\ xret # TPM_SUCCESS

\* Call i of tpm_setup is the last one and tpm_setup returns a non-success
\* status without a further call.
SetupStopsAt(i) ==
  /\ i = Len(calls)
  /\ pc \in {"epilogue", "done", "idle"}
  /\ result # TPM_SUCCESS
  /\ Finished => ret # TPM_SUCCESS

\* C18 as stated: in every function, once a collaborator call returns a
\* non-success status that is not a remapped invalid-post-init, no further
\* call is issued and the function returns a non-success status.
C18_FirstFailureStops ==
  /\ TraceStopsAtFailure
  /\ \A i \in 1..Len(calls) :
       (Failed(calls[i]) /\ ~Remapped(calls[i])) => SetupStopsAt(i)

\* Call i is the first physical-presence assertion of tpm_setup.
FirstAssertion(i) ==
  /\ calls[i].op = "assert_physical_presence"
  /\ \A a \in AssertIdx : i <= a

\* C18 amended: as C18, except for the first physical-presence assertion of
\* tpm_setup: its failure is followed by the command enable, and by nothing
\* else until that returned.
C18_FirstFailureStopsButPresence ==
  /\ TraceStopsAtFailure
  /\ \A i \in 1..Len(calls) :
       (Failed(calls[i]) /\ ~Remapped(calls[i])) =>
         IF FirstAssertion(i)
         THEN /\ i = Len(calls) => pc = "pp_cmd_enable"
              /\ i < Len(calls) =>
                   calls[i + 1].op = "physical_presence_cmd_enable"
         ELSE SetupStopsAt(i)

\* C18 witness: a failed hash update ended tpm_measure_region.
C18_Witness ==
  /\ Measuring
  /\ XFinished
  /\ TCount("digest_extend") = 2
  /\ Failed(trace[Len(trace)])
  /\ trace[Len(trace)].op = "digest_extend"
  /\ xret = TPM_E_HASH_ERROR

\* C18 witness in tpm_setup: the failed first assertion, remediated, with
\* the failure of get_flags ending the setup.
C18_WitnessSetup ==
  /\ Finished
  /\ Remediated
  /\ calls[Len(calls)].op = "get_flags"
  /\ ret = TPM_E_IOERROR
====
